---------------------------- MODULE Spec2Model ----------------------------
(***************************************************************************)
(* Model of the string-level storage of transifex:                         *)
(*   transifex/projects/models.py   (Project)                              *)
(*   transifex/resources/models.py  (Resource, SourceEntity, Translation,  *)
(*                                   Template)                             *)
(* The database is the state: one variable per table.  Every model method  *)
(* is one action; the rows it writes and the hooks it calls are recorded   *)
(* in the history variable last, in the order the code performs them.      *)
(***************************************************************************)
EXTENDS Integers, Sequences, FiniteSets

VARIABLES
    projects,       \* projects_project rows: the set of project slugs
    resources,      \* Resource rows: a function slug -> record, pk = FALSE: no row
    rlstats,        \* RLStats rows: a set of <<resource, language>>
    entities,       \* SourceEntity rows: a set of records
    se_seq,         \* the last SourceEntity id handed out
    translations,   \* Translation rows: a set of records
    tr_seq,         \* the last Translation id handed out
    templates,      \* Template rows: the set of resource slugs that have one
    last,           \* the last model call: its name, arguments, outcome, events
    imp             \* the import requests in progress: one record per worker

vars == <<projects, resources, rlstats, entities, se_seq, translations, tr_seq,
          templates, last, imp>>

---------------------------------------------------------------------------
(* Bounds of the model. *)

MaxEntities == 2
MaxTranslations == 2
MaxOverride == 2
MaxWorkers == 2
MaxLen == 4

---------------------------------------------------------------------------
(* Python values.  A unicode string is a sequence of one-character strings; *)
(* None is a value that is no string.                                       *)

None == <<"NoneType">>
Text(s) == s # None

EmptyText == << >>
NoneText == <<"N", "o", "n", "e">>      \* the unicode string u'None'
Colon == <<":">>

Alphabet == <<"a", "b", ":", " ", "\t", "N", "o", "n", "e">>
Whitespace == {" ", "\t"}

\* bool(x) of a string or None: None and u'' are false
truth(x) == Text(x) /\ Len(x) > 0

\* ':'.join([a, b])
join(a, b) == a \o Colon \o b

CharCode(c) == CHOOSE i \in 1..Len(Alphabet) : Alphabet[i] = c
DigestBase == Len(Alphabet) + 1

\* The digest of a byte string.  Collisions of MD5 are left out: the digest
\* is a number that determines the string (positional code of its characters).
RECURSIVE md5(_)
md5(s) ==
    IF Len(s) = 0 THEN 0
    ELSE md5(SubSeq(s, 1, Len(s) - 1)) * DigestBase + CharCode(s[Len(s)])

md5_constructor(s) == md5(s)

---------------------------------------------------------------------------
(* The history variable. *)

NoInstance == [string |-> EmptyText, context |-> EmptyText, string_hash |-> 0]

Call(op, ok, r, n, inst, events) ==
    [op |-> op, ok |-> ok, resource |-> r, arg |-> n, instance |-> inst,
     events |-> events, removed |-> <<0, 0, 0>>, file |-> << >>,
     again |-> FALSE]

\* a deleting call: the numbers of SourceEntity, Translation and Template rows
\* that went with it
Deleted(op, r, events, es, ts, tps) ==
    [Call(op, TRUE, r, {}, NoInstance, events) EXCEPT
        !.removed = <<Cardinality(es), Cardinality(ts), Cardinality(tps)>>]

NoResource == "-"
NoArg == {}

---------------------------------------------------------------------------
(* Resource *)

NoRow == [pk |-> FALSE, project |-> "-", source_language |-> "-",
          total_entities |-> 0, wordcount |-> 0]

\* Team.objects.filter(project=...): the teams are another application's rows
TeamLanguages(p) == IF p = "p1" THEN {"el"} ELSE {}

\* the two invalidate_template_cache calls that end Resource.save
SaveInvalidations ==
    <<"invalidate_template_cache:project_resource_details",
      "invalidate_template_cache:resource_details">>

Resource_save_events == <<"row_written">> \o SaveInvalidations

\* Resource.save of a new instance (pk is None) or of a loaded one
Resource_save(r, p, lang) ==
    /\ p \in projects
    /\ IF resources[r].pk
         THEN /\ resources[r].project = p
              /\ resources' = [resources EXCEPT ![r].source_language = lang]
              /\ UNCHANGED rlstats
         ELSE /\ resources' = [resources EXCEPT ![r] =
                    [pk |-> TRUE, project |-> p, source_language |-> lang,
                     total_entities |-> 0, wordcount |-> 0]]
              /\ rlstats' = rlstats \cup {<<r, l>> : l \in TeamLanguages(p)}
    /\ last' = Call("Resource.save", TRUE, r, NoArg, NoInstance,
                    Resource_save_events)
    /\ UNCHANGED <<projects, entities, se_seq, translations, tr_seq,
                   templates, imp>>

\* Resource.entities and the subqueries SourceEntity.objects.filter(resource=self)
Resource_entities(r) == {e \in entities : e.resource = r}

\* (mutant) the filter on the resource's entities is missing
source_trans_of_any_resource(r) == translations

\* Translation.objects.filter(source_entity__id__in=<the resource's entities>)
source_trans(r) ==
    {t \in translations :
        t.source_entity \in {e.id : e \in Resource_entities(r)}}

\* Resource.update_total_entities(total_entities=None).  The argument is a set:
\* {} for None, {n} for the integer n.
update_total_entities(r, total_entities) ==
    /\ resources[r].pk
    /\ LET given == total_entities # {} /\ total_entities # {0}   \* if total_entities:
           n == IF given THEN CHOOSE x \in total_entities : TRUE
                ELSE Cardinality(Resource_entities(r))
       IN resources' = [resources EXCEPT ![r].total_entities = n]
    /\ last' = [Call("update_total_entities", TRUE, r, total_entities,
                     NoInstance, Resource_save_events) EXCEPT
                   \* the call repeats the one before it
                   !.again = /\ last.op = "update_total_entities"
                             /\ last.resource = r
                             /\ last.arg = total_entities]
    /\ UNCHANGED <<projects, rlstats, entities, se_seq, translations, tr_seq,
                   templates, imp>>

---------------------------------------------------------------------------
(* Translation.wordcount: len(self.string.split(None)) *)

\* unicode.split(None): the maximal runs of non-whitespace characters, in order
RECURSIVE split(_, _, _)
split(s, word, words) ==
    IF Len(s) = 0
      THEN IF Len(word) > 0 THEN Append(words, word) ELSE words
      ELSE IF s[1] \in Whitespace
             THEN split(Tail(s), << >>,
                        IF Len(word) > 0 THEN Append(words, word) ELSE words)
             ELSE split(Tail(s), Append(word, s[1]), words)

\* (mutant) split(' '): every whitespace character ends a word, an empty one too
wordcount_per_separator(string) ==
    Cardinality({i \in 1..Len(string) : string[i] \in Whitespace}) + 1

wordcount(string) == Len(split(string, << >>, << >>))

\* the loop of update_wordcount: wc += t.wordcount for t in source_trans
RECURSIVE SumWordcount(_)
SumWordcount(ts) ==
    IF ts = {} THEN 0
    ELSE LET t == CHOOSE x \in ts : TRUE
         IN wordcount(t.string) + SumWordcount(ts \ {t})

\* (mutant) the count starts from the stored wordcount, not from 0
update_wordcount_accumulating(r) ==
    /\ resources[r].pk
    /\ resources' = [resources EXCEPT
          ![r].wordcount = resources[r].wordcount + SumWordcount(source_trans(r))]
    /\ last' = [Call("update_wordcount", TRUE, r, NoArg, NoInstance,
                     Resource_save_events) EXCEPT
                   !.again = last.op = "update_wordcount" /\ last.resource = r]
    /\ UNCHANGED <<projects, rlstats, entities, se_seq, translations, tr_seq,
                   templates, imp>>

\* Resource.update_wordcount
update_wordcount(r) ==
    /\ resources[r].pk
    /\ resources' = [resources EXCEPT ![r].wordcount = SumWordcount(source_trans(r))]
    /\ last' = [Call("update_wordcount", TRUE, r, NoArg, NoInstance,
                     Resource_save_events) EXCEPT
                   \* the call repeats the one before it
                   !.again = last.op = "update_wordcount" /\ last.resource = r]
    /\ UNCHANGED <<projects, rlstats, entities, se_seq, translations, tr_seq,
                   templates, imp>>

---------------------------------------------------------------------------
(* Deletion.  Model.delete collects the rows that point at the deleted rows *)
(* through a ForeignKey and deletes them with it.                           *)

\* SourceEntity.resource: the entities of the resources rs
CollectEntities(rs) == {e \in entities : e.resource \in rs}

\* (mutant) the translations are not collected
CollectNoTranslations(es) == {}

\* Translation.source_entity: the translations of the entities es
CollectTranslations(es) ==
    {t \in translations : t.source_entity \in {e.id : e \in es}}

\* Template.resource: the templates of the resources rs
CollectTemplates(rs) == templates \cap rs

\* super(Resource, self).delete() and QuerySet.delete() of the resources rs
DeleteResources(rs) ==
    /\ resources' = [r \in DOMAIN resources |->
                        IF r \in rs THEN NoRow ELSE resources[r]]
    /\ entities' = entities \ CollectEntities(rs)
    /\ translations' = translations \ CollectTranslations(CollectEntities(rs))
    /\ templates' = templates \ CollectTemplates(rs)
    /\ rlstats' = {s \in rlstats : s[1] \notin rs}

Resource_delete_events ==
    <<"invalidate_stats_cache", "rlstats_deleted", "row_deleted">>

\* Resource.delete
Resource_delete(r) ==
    /\ resources[r].pk
    /\ DeleteResources({r})
    /\ last' = Deleted("Resource.delete", r, Resource_delete_events,
                       CollectEntities({r}),
                       CollectTranslations(CollectEntities({r})),
                       CollectTemplates({r}))
    /\ UNCHANGED <<projects, se_seq, tr_seq, imp>>

---------------------------------------------------------------------------
(* Project *)

\* Project.save
Project_save(p) ==
    /\ projects' = projects \cup {p}
    /\ last' = Call("Project.save", TRUE, NoResource, NoArg, NoInstance, << >>)
    /\ UNCHANGED <<resources, rlstats, entities, se_seq, translations, tr_seq,
                   templates, imp>>

\* self.resources.all()
Project_resources(p) ==
    {r \in DOMAIN resources : resources[r].pk /\ resources[r].project = p}

Project_delete_events == <<"rows_deleted">>

\* Project.delete: the resources go through QuerySet.delete(), which calls no
\* Resource.delete
Project_delete(p) ==
    /\ p \in projects
    /\ DeleteResources(Project_resources(p))
    /\ projects' = projects \ {p}
    /\ last' = Deleted("Project.delete", NoResource,
                       IF Project_resources(p) = {} THEN << >>
                       ELSE Project_delete_events,
                       CollectEntities(Project_resources(p)),
                       CollectTranslations(CollectEntities(Project_resources(p))),
                       CollectTemplates(Project_resources(p)))
    /\ UNCHANGED <<se_seq, tr_seq, imp>>

---------------------------------------------------------------------------
(* SourceEntity *)

\* (mutant) the literal text 'None' is hashed as it stands
hashed_context_keeps_None_text(context) ==
    IF ~truth(context) THEN EmptyText ELSE context

\* SourceEntity.save, the part before super().save: the context as hashed
hashed_context(context) ==
    IF ~truth(context) \/ context = NoneText THEN EmptyText ELSE context

\* SourceEntity.save: self.string_hash
SourceEntity_string_hash(string, context) ==
    md5_constructor(join(string, hashed_context(context)))

\* (mutant) the table has no uniqueness constraint
SourceEntity_no_constraint(es, row) == TRUE

\* Meta.unique_together = (('string_hash', 'context', 'resource'),): whether the
\* row may be stored beside the rows es
SourceEntity_unique_together(es, row) ==
    ~ \E e \in es : /\ e.id # row.id
                    /\ e.string_hash = row.string_hash
                    /\ e.context = row.context
                    /\ e.resource = row.resource

\* context: null=False; resource: a ForeignKey, null=False
SourceEntity_columns_ok(row) ==
    /\ Text(row.context)
    /\ resources[row.resource].pk

\* the row SourceEntity.save hands to super().save; pk = 0 stands for pk None
SourceEntity_row(pk, r, string, context, pluralized) ==
    [id |-> IF pk = 0 THEN se_seq + 1 ELSE pk,
     resource |-> r, string |-> string, context |-> context,
     string_hash |-> SourceEntity_string_hash(string, context),
     pluralized |-> pluralized]

\* whether super().save stores the row (otherwise IntegrityError)
SourceEntity_stored(row) ==
    SourceEntity_columns_ok(row) /\ SourceEntity_unique_together(entities, row)

\* SourceEntity.save of a new instance (pk = 0) or of the loaded row pk
SourceEntity_save(pk, r, string, context, pluralized) ==
    LET row == SourceEntity_row(pk, r, string, context, pluralized)
        ok == SourceEntity_stored(row)
    IN /\ pk # 0 => \E e \in entities : e.id = pk
       /\ (pk = 0 /\ ok) => se_seq < MaxEntities
       /\ IF ok
            THEN /\ entities' = {e \in entities : e.id # row.id} \cup {row}
                 /\ se_seq' = IF pk = 0 THEN se_seq + 1 ELSE se_seq
            ELSE UNCHANGED <<entities, se_seq>>
       /\ last' = Call("SourceEntity.save", ok, r, NoArg,
                       [string |-> string, context |-> context,
                        string_hash |-> row.string_hash], << >>)
       /\ UNCHANGED <<projects, resources, rlstats, translations, tr_seq,
                      templates, imp>>

\* SourceEntity.delete (Model.delete): the entity and its translations
SourceEntity_delete(pk) ==
    /\ \E e \in entities : e.id = pk
    /\ LET es == {e \in entities : e.id = pk}
       IN /\ entities' = entities \ es
          /\ translations' = translations \ CollectTranslations(es)
          /\ last' = Deleted("SourceEntity.delete",
                             (CHOOSE e \in es : TRUE).resource, << >>,
                             es, CollectTranslations(es), {})
    /\ UNCHANGED <<projects, resources, rlstats, se_seq, tr_seq, templates, imp>>

---------------------------------------------------------------------------
(* Translation *)

\* language: a ForeignKey with null=True; NULL is no language code
NullLanguage == "NULL"

\* Meta.unique_together = (('source_entity', 'language', 'rule'),).  A row whose
\* language is NULL equals no row under the constraint.
Translation_unique_together(ts, row) ==
    ~ \E t \in ts : /\ t.id # row.id
                    /\ t.source_entity = row.source_entity
                    /\ t.language # NullLanguage
                    /\ t.language = row.language
                    /\ t.rule = row.rule

\* source_entity: a ForeignKey, null=False
Translation_columns_ok(row) ==
    \E e \in entities : e.id = row.source_entity

\* the row Translation.save hands to super().save; pk = 0 stands for pk None
Translation_row(pk, se, language, rule, string) ==
    [id |-> IF pk = 0 THEN tr_seq + 1 ELSE pk,
     source_entity |-> se, language |-> language, rule |-> rule,
     string |-> string, string_hash |-> md5(string)]

Translation_stored(row) ==
    Translation_columns_ok(row) /\ Translation_unique_together(translations, row)

\* Translation.save of a new instance (pk = 0) or of the loaded row pk
Translation_save(pk, se, language, rule, string) ==
    LET row == Translation_row(pk, se, language, rule, string)
        ok == Translation_stored(row)
    IN /\ pk # 0 => \E t \in translations : t.id = pk
       /\ (pk = 0 /\ ok) => tr_seq < MaxTranslations
       /\ IF ok
            THEN /\ translations' = {t \in translations : t.id # row.id} \cup {row}
                 /\ tr_seq' = IF pk = 0 THEN tr_seq + 1 ELSE tr_seq
            ELSE UNCHANGED <<translations, tr_seq>>
       /\ last' = Call("Translation.save", ok, NoResource, NoArg,
                       [string |-> string, context |-> EmptyText,
                        string_hash |-> row.string_hash], << >>)
       /\ UNCHANGED <<projects, resources, rlstats, entities, se_seq,
                      templates, imp>>

\* Translation.delete (Model.delete)
Translation_delete(pk) ==
    /\ \E t \in translations : t.id = pk
    /\ translations' = {t \in translations : t.id # pk}
    /\ last' = Deleted("Translation.delete", NoResource, << >>,
                       {}, {t \in translations : t.id = pk}, {})
    /\ UNCHANGED <<projects, resources, rlstats, entities, se_seq, tr_seq,
                   templates, imp>>

\* a read of the property Translation.wordcount of the loaded row pk
Translation_wordcount(pk) ==
    /\ \E t \in translations : t.id = pk
    /\ LET t == CHOOSE x \in translations : x.id = pk
       IN last' = Call("Translation.wordcount", TRUE, NoResource,
                       {wordcount(t.string)},
                       [string |-> t.string, context |-> EmptyText,
                        string_hash |-> t.string_hash], << >>)
    /\ UNCHANGED <<projects, resources, rlstats, entities, se_seq, translations,
                   tr_seq, templates, imp>>

\* SourceEntity.get_translation(lang_code, rule): the rows the query finds
get_translation_rows(se, lang_code, rule) ==
    {t \in translations : /\ t.source_entity = se
                          /\ t.language # NullLanguage
                          /\ t.language = lang_code
                          /\ t.rule = rule}

\* SourceEntity.get_translation: the row, None when Translation.DoesNotExist
\* is caught, and the exception QuerySet.get raises on several rows
get_translation(se, lang_code, rule) ==
    LET rows == get_translation_rows(se, lang_code, rule)
    IN IF rows = {} THEN [result |-> "None", rows |-> rows]
       ELSE IF Cardinality(rows) = 1 THEN [result |-> "Translation", rows |-> rows]
       ELSE [result |-> "MultipleObjectsReturned", rows |-> rows]

---------------------------------------------------------------------------
(* Template *)

\* Template.save (Model.save): resource is unique
Template_save(r) ==
    LET ok == resources[r].pk /\ r \notin templates
    IN /\ templates' = IF ok THEN templates \cup {r} ELSE templates
       /\ last' = Call("Template.save", ok, r, NoArg, NoInstance, << >>)
       /\ UNCHANGED <<projects, resources, rlstats, entities, se_seq,
                      translations, tr_seq, imp>>

---------------------------------------------------------------------------
(* Import of a parsed source file into a resource.  The handlers live in    *)
(* transifex/resources/formats; what is modelled here is their contract:    *)
(* every record becomes a SourceEntity unless the store answers that the    *)
(* entity exists, which is then reused; the template is stored and the      *)
(* counts are recomputed, all in one transaction.                           *)

\* a record of a parsed file
Record(string, context) == [string |-> string, context |-> context]

\* SourceEntity(...).save() for each record in turn, on the rows es
RECURSIVE import_entities(_, _, _, _)
import_entities(es, seq, r, recs) ==
    IF Len(recs) = 0 THEN [entities |-> es, seq |-> seq]
    ELSE LET rec == Head(recs)
             row == [id |-> seq + 1, resource |-> r, string |-> rec.string,
                     context |-> rec.context,
                     string_hash |-> SourceEntity_string_hash(rec.string, rec.context),
                     pluralized |-> FALSE]
             ok == SourceEntity_columns_ok(row) /\ SourceEntity_unique_together(es, row)
         IN import_entities(IF ok THEN es \cup {row} ELSE es,
                            IF ok THEN seq + 1 ELSE seq, r, Tail(recs))

\* one import request, start to commit
Import(r, file) ==
    LET done == import_entities(entities, se_seq, r, file)
    IN /\ resources[r].pk
       /\ done.seq <= MaxEntities
       /\ entities' = done.entities
       /\ se_seq' = done.seq
       /\ templates' = templates \cup {r}
       /\ resources' = [resources EXCEPT
             ![r].total_entities =
                 Cardinality({e \in done.entities : e.resource = r}),
             \* the new rows have no translation yet
             ![r].wordcount = SumWordcount(source_trans(r))]
       /\ last' = [Call("import", TRUE, r, {done.seq - se_seq}, NoInstance,
                        Resource_save_events) EXCEPT
                      !.file = file,
                      \* the request repeats the one before it
                      !.again = /\ last.op = "import"
                                /\ last.resource = r
                                /\ last.file = file]
       /\ UNCHANGED <<projects, rlstats, translations, tr_seq, imp>>

(* The same import, one database statement at a time, for requests that run *)
(* at the same time.                                                        *)

Idle == [pc |-> "idle", resource |-> NoResource, record |-> Record(EmptyText, EmptyText),
         outcome |-> "-"]

\* a request arrives
import_begin(w, r, rec) ==
    /\ imp[w].pc \in {"idle", "done"}
    /\ resources[r].pk
    /\ imp' = [imp EXCEPT ![w] = [pc |-> "get", resource |-> r, record |-> rec,
                                  outcome |-> "-"]]
    /\ last' = Call("import.begin", TRUE, r, NoArg, NoInstance, << >>)
    /\ UNCHANGED <<projects, resources, rlstats, entities, se_seq, translations,
                   tr_seq, templates>>

\* the diff against the rows of the resource: is the entity there?
import_get(w) ==
    /\ imp[w].pc = "get"
    /\ LET rec == imp[w].record
           found == \E e \in Resource_entities(imp[w].resource) :
                        e.string = rec.string /\ e.context = rec.context
       IN imp' = [imp EXCEPT ![w].pc = IF found THEN "count" ELSE "create",
                             ![w].outcome = IF found THEN "found" ELSE "-"]
    /\ last' = Call("import.get", TRUE, imp[w].resource, NoArg, NoInstance, << >>)
    /\ UNCHANGED <<projects, resources, rlstats, entities, se_seq, translations,
                   tr_seq, templates>>

\* SourceEntity(...).save(); a uniqueness violation means the entity exists
import_create(w) ==
    LET rec == imp[w].record
        row == SourceEntity_row(0, imp[w].resource, rec.string, rec.context, FALSE)
        ok == SourceEntity_stored(row)
    IN /\ imp[w].pc = "create"
       /\ ok => se_seq < MaxEntities
       /\ IF ok
            THEN /\ entities' = entities \cup {row}
                 /\ se_seq' = se_seq + 1
            ELSE UNCHANGED <<entities, se_seq>>
       /\ imp' = [imp EXCEPT
             ![w].pc = IF ok \/ SourceEntity_columns_ok(row) THEN "count" ELSE "failed",
             ![w].outcome = IF ok THEN "created"
                            ELSE IF SourceEntity_columns_ok(row) THEN "exists"
                            ELSE "error"]
       /\ last' = Call("import.create", ok, imp[w].resource, NoArg,
                       [string |-> rec.string, context |-> rec.context,
                        string_hash |-> row.string_hash], << >>)
       /\ UNCHANGED <<projects, resources, rlstats, translations, tr_seq, templates>>

\* resource.update_total_entities() ends the request
import_count(w) ==
    /\ imp[w].pc = "count"
    /\ resources[imp[w].resource].pk
    /\ resources' = [resources EXCEPT ![imp[w].resource].total_entities =
                        Cardinality(Resource_entities(imp[w].resource))]
    /\ imp' = [imp EXCEPT ![w].pc = "done"]
    /\ last' = Call("import.count", TRUE, imp[w].resource, NoArg, NoInstance,
                    Resource_save_events)
    /\ UNCHANGED <<projects, rlstats, entities, se_seq, translations, tr_seq,
                   templates>>

---------------------------------------------------------------------------
(* The inputs the specifications draw from. *)

Slugs == {"r1", "r2"}
Languages == {"en", "el"}
Workers == 1..MaxWorkers

\* "a" and "a:" with the contexts ":" and "" join to the same text, "a::"
EntityStrings == {<<"a">>, <<"a", ":">>}
Contexts == {None, EmptyText, NoneText, Colon}
Overrides == {{}} \cup {{n} : n \in 0..MaxOverride}

Files ==
    { <<Record(<<"a">>, EmptyText)>>,
      <<Record(<<"a">>, EmptyText), Record(<<"a">>, NoneText)>>,
      <<Record(<<"a">>, Colon), Record(<<"a", ":">>, EmptyText)>> }

Init ==
    /\ projects = {}
    /\ resources = [r \in Slugs |-> NoRow]
    /\ rlstats = {}
    /\ entities = {}
    /\ se_seq = 0
    /\ translations = {}
    /\ tr_seq = 0
    /\ templates = {}
    /\ last = Call("-", TRUE, NoResource, NoArg, NoInstance, << >>)
    /\ imp = [w \in Workers |-> Idle]

---------------------------------------------------------------------------
(* Spec: source entities are saved, changed, deleted and imported, and the  *)
(* entity count of a resource is updated.                                   *)

\* what is saved: everything into r1, one string into r2
EntityInputs ==
    {<<"r1", s, c>> : s \in EntityStrings, c \in Contexts}
        \cup {<<"r2", <<"a">>, EmptyText>>}

Next ==
    \/ "p1" \notin projects /\ Project_save("p1")
    \/ \E r \in Slugs : ~resources[r].pk /\ Resource_save(r, "p1", "en")
    \/ \E i \in EntityInputs : SourceEntity_save(0, i[1], i[2], i[3], FALSE)
    \/ \E e \in entities, i \in EntityInputs :
          SourceEntity_save(e.id, i[1], i[2], i[3], FALSE)
    \/ \E e \in entities : SourceEntity_delete(e.id)
    \/ \E n \in Overrides : update_total_entities("r1", n)
    \/ update_total_entities("r2", {})
    \/ \E f \in Files : Import("r1", f)

Spec == Init /\ [][Next]_vars

---------------------------------------------------------------------------
(* Claims checked under Spec *)

\* the digest the specification gives for a string and a context
ExpectedHash(string, context) ==
    IF context \in {None, EmptyText, NoneText}
      THEN md5(string \o <<":">>)
      ELSE md5(string \o <<":">> \o context)

\* C1: after every SourceEntity.save the string_hash of the saved instance, and
\* of every stored row, is the digest of string + ":" + c, c being the context
\* with None, '' and the text 'None' replaced by ''; so the three contexts give
\* one string the same string_hash.
C1_StringHash ==
    /\ \A e \in entities : e.string_hash = ExpectedHash(e.string, e.context)
    /\ last.op = "SourceEntity.save" =>
          /\ last.instance.string_hash =
                ExpectedHash(last.instance.string, last.instance.context)
          /\ \A e \in entities :
                (/\ e.string = last.instance.string
                 /\ e.context \in {EmptyText, NoneText}
                 /\ last.instance.context \in {None, EmptyText, NoneText})
                    => e.string_hash = last.instance.string_hash

\* a save with context None after the same string was stored with the contexts
\* '' and 'None': three contexts, one string_hash
C1_Witness ==
    /\ last.op = "SourceEntity.save"
    /\ last.instance.context = None
    /\ \E e1, e2 \in entities :
          /\ e1.context = EmptyText /\ e2.context = NoneText
          /\ e1.string = last.instance.string /\ e2.string = last.instance.string
          /\ e1.string_hash = last.instance.string_hash
          /\ e2.string_hash = last.instance.string_hash

NoDuplicateEntities ==
    \A e1, e2 \in entities :
        (/\ e1.string_hash = e2.string_hash
         /\ e1.context = e2.context
         /\ e1.resource = e2.resource) => e1 = e2

\* C2: no two SourceEntity rows have the same (string_hash, context, resource),
\* whatever is saved and imported; and an import that repeats the import before
\* it (same file, same resource) adds no row and leaves total_entities as it was.
C2_UniqueEntities ==
    /\ []NoDuplicateEntities
    /\ [][(last'.op = "import" /\ last'.again) =>
             /\ entities' = entities
             /\ resources'[last'.resource].total_entities =
                   resources[last'.resource].total_entities]_vars

\* a file of two records was imported twice in a row: the second import
\* created nothing, and a plain save of one of its records was refused before
C2_Witness ==
    /\ last.op = "import" /\ last.again
    /\ Len(last.file) = 2
    /\ last.arg = {0}
    /\ Cardinality(Resource_entities(last.resource)) = 2
    /\ resources[last.resource].total_entities = 2

\* C5: update_total_entities(n) sets total_entities to n for every n >= 0, and
\* update_total_entities() sets it to the number of SourceEntity rows.
C5_TotalEntities ==
    last.op = "update_total_entities" =>
        resources[last.resource].total_entities =
            IF last.arg = {} THEN Cardinality(Resource_entities(last.resource))
            ELSE CHOOSE n \in last.arg : TRUE

\* C14: within one resource no two SourceEntity rows have the same
\* string_hash; in particular one string saved with two contexts that are
\* hashed alike ('' and the text 'None') does not give two rows.
C14_OneRowPerHash ==
    \A e1, e2 \in entities :
        (/\ e1.resource = e2.resource
         /\ e1.string = e2.string
         /\ e1.string_hash = e2.string_hash) => e1 = e2

---------------------------------------------------------------------------
(* SpecImport: import requests of several workers run at the same time on    *)
(* one resource, each statement of a request being one step.  A request that *)
(* has begun runs to its end.                                                *)

ImportRecords == {Record(<<"a">>, EmptyText), Record(<<"a">>, NoneText)}

import_step(w) == import_get(w) \/ import_create(w) \/ import_count(w)

NextImport ==
    \/ "p1" \notin projects /\ Project_save("p1")
    \/ ~resources["r1"].pk /\ Resource_save("r1", "p1", "en")
    \/ \E w \in Workers, rec \in ImportRecords : import_begin(w, "r1", rec)
    \/ \E w \in Workers : import_get(w)
    \/ \E w \in Workers : import_create(w)
    \/ \E w \in Workers : import_count(w)

SpecImport ==
    Init /\ [][NextImport]_vars /\ \A w \in Workers : WF_vars(import_step(w))

\* C3: however the statements of concurrent imports of one resource interleave,
\* there is at most one row per (string_hash, context) of the resource, no
\* import fails, and the import whose save is refused by the uniqueness
\* constraint takes the entity as existing and runs to its end.
C3_ConcurrentImports ==
    /\ [](/\ NoDuplicateEntities
          /\ \A w \in Workers :
                /\ imp[w].pc # "failed"
                /\ imp[w].outcome = "exists" => imp[w].pc \in {"count", "done"})
    /\ \A w \in Workers :
          (imp[w].outcome = "exists") ~> (imp[w].pc = "done")

\* two requests saved the same string and context; one created the row, the
\* other was refused, took the entity as existing and is done
C3_Witness ==
    \E w1, w2 \in Workers :
        /\ imp[w1].record = imp[w2].record
        /\ imp[w1].outcome = "created" /\ imp[w1].pc = "done"
        /\ imp[w2].outcome = "exists" /\ imp[w2].pc = "done"
        /\ Cardinality({e \in entities : /\ e.string = imp[w1].record.string
                                         /\ e.context = imp[w1].record.context}) = 1

---------------------------------------------------------------------------
(* SpecWords: translations in the source language and in another language    *)
(* are saved, changed and deleted under the entities of two resources, and   *)
(* the counts of r1 are updated.                                             *)

\* one word, and two words with two blanks between them
TranslationStrings == {<<"a">>, <<"a", " ", " ", "b">>}

NextWords ==
    \/ "p1" \notin projects /\ Project_save("p1")
    \/ \E r \in Slugs : ~resources[r].pk /\ Resource_save(r, "p1", "en")
    \/ \E r \in Slugs : SourceEntity_save(0, r, <<"a">>, EmptyText, FALSE)
    \/ \E e \in Resource_entities("r1") :
          SourceEntity_save(e.id, e.resource, e.string, e.context, TRUE)
    \/ \E e \in Resource_entities("r1") : SourceEntity_delete(e.id)
    \/ \E e \in entities, l \in Languages, s \in TranslationStrings :
          Translation_save(0, e.id, l, 5, s)
    \/ \E t \in source_trans("r1"), s \in TranslationStrings :
          Translation_save(t.id, t.source_entity, t.language, t.rule, s)
    \/ \E t \in source_trans("r1") : Translation_delete(t.id)
    \/ update_total_entities("r1", {})
    \/ update_wordcount("r1")

SpecWords == Init /\ [][NextWords]_vars

\* the Translation rows of the resource's entities in its source language
SourceLanguageTranslations(r) ==
    {t \in translations :
        /\ \E e \in entities : e.id = t.source_entity /\ e.resource = r
        /\ t.language = resources[r].source_language}

RECURSIVE SumWords(_)
SumWords(ts) ==
    IF ts = {} THEN 0
    ELSE LET t == CHOOSE x \in ts : TRUE
         IN Len(split(t.string, << >>, << >>)) + SumWords(ts \ {t})

\* C4: after update_wordcount the wordcount of the resource is the sum of the
\* word counts of the Translation rows of its entities in its source language;
\* rows in other languages add nothing.
C4_SourceLanguageWordcount ==
    last.op = "update_wordcount" =>
        resources[last.resource].wordcount =
            SumWords(SourceLanguageTranslations(last.resource))

RowCalls == {"SourceEntity.save", "SourceEntity.delete",
             "Translation.save", "Translation.delete"}

\* among the rows ts, the Translation rows of the entities of r among es,
\* whatever their language
TranslationsIn(es, ts, r) ==
    {t \in ts : \E e \in es : e.id = t.source_entity /\ e.resource = r}

TranslationsOf(r) == TranslationsIn(entities, translations, r)

CountIn(es, r) == Cardinality({e \in es : e.resource = r})

CountEntities(r) == CountIn(entities, r)

\* C6 as claimed: in every state reached by creating, changing or deleting a
\* SourceEntity or a Translation, total_entities is the number of SourceEntity
\* rows of each resource and wordcount is what update_wordcount would compute.
C6_CountsFollowRows ==
    (last.op \in RowCalls /\ last.ok) =>
        \A r \in Slugs : resources[r].pk =>
            /\ resources[r].total_entities = CountEntities(r)
            /\ resources[r].wordcount = SumWords(TranslationsOf(r))

\* C6 as amended: the cached counts change only when they are updated.  A save
\* or a delete of a SourceEntity or a Translation leaves total_entities and
\* wordcount of every resource as they were; update_total_entities() sets
\* total_entities to the number of SourceEntity rows of the resource, and
\* update_wordcount() sets wordcount to the sum of the word counts of the
\* Translation rows of the resource's entities.
C6_CountsFollowUpdates ==
    [][/\ last'.op \in RowCalls => resources' = resources
       /\ (last'.op = "update_total_entities" /\ last'.arg = {}) =>
             resources'[last'.resource].total_entities
                = CountIn(entities', last'.resource)
       /\ last'.op = "update_wordcount" =>
             resources'[last'.resource].wordcount
                = SumWords(TranslationsIn(entities', translations', last'.resource))
      ]_vars

\* update_wordcount has just set the wordcount of r1 to two words, after
\* total_entities was updated to one, while r2 has a translation of its own
C6_Witness ==
    /\ last.op = "update_wordcount" /\ last.resource = "r1"
    /\ resources["r1"].wordcount = 2
    /\ resources["r1"].total_entities = 1
    /\ TranslationsOf("r2") # {}

UpdateCalls == {"update_total_entities", "update_wordcount"}

\* C11: update_total_entities() and update_wordcount() can be called at any
\* time and again: a call that repeats the call before it, the rows being the
\* same, leaves total_entities and wordcount as the first call left them; on a
\* resource without entities both succeed, and the count they set is 0.
C11_Idempotent ==
    /\ [](last.op \in UpdateCalls =>
            /\ last.ok
            /\ (last.arg = {} /\ CountEntities(last.resource) = 0) =>
                  /\ last.op = "update_total_entities" =>
                        resources[last.resource].total_entities = 0
                  /\ last.op = "update_wordcount" =>
                        resources[last.resource].wordcount = 0)
    /\ [][(last'.op \in UpdateCalls /\ last'.again) => resources' = resources]_vars

\* update_wordcount was called twice in a row on a resource whose entity has
\* a translation of two words, after total_entities was updated
C11_Witness ==
    /\ last.op = "update_wordcount" /\ last.again
    /\ resources[last.resource].wordcount = 2
    /\ resources[last.resource].total_entities = 1

---------------------------------------------------------------------------
(* SpecRules: translations of every plural rule, with and without a         *)
(* language, under entities that are pluralized or not.                     *)

\* one, other, and an integer that is no plural rule
Rules == {1, 5, 6}

NextRules ==
    \/ "p1" \notin projects /\ Project_save("p1")
    \/ ~resources["r1"].pk /\ Resource_save("r1", "p1", "en")
    \/ \E c \in {EmptyText, Colon}, pl \in BOOLEAN :
          SourceEntity_save(0, "r1", <<"a">>, c, pl)
    \/ \E e \in entities, pl \in BOOLEAN :
          SourceEntity_save(e.id, e.resource, e.string, e.context, pl)
    \/ \E e \in entities, l \in {"en", NullLanguage}, rule \in Rules :
          Translation_save(0, e.id, l, rule, <<"a">>)
    \/ \E t \in translations, rule \in Rules :
          Translation_save(t.id, t.source_entity, t.language, rule, t.string)
    \/ \E t \in translations : Translation_delete(t.id)
    \/ update_wordcount("r1")

SpecRules == Init /\ [][NextRules]_vars

\* C9: every Translation has a rule in 0..5, and a Translation of an entity that
\* is not pluralized has rule 5.
C9_RuleOfTranslation ==
    \A t \in translations :
        /\ t.rule \in 0..5
        /\ \A e \in entities :
              (e.id = t.source_entity /\ ~e.pluralized) => t.rule = 5

\* C10: there is at most one Translation row per (source_entity, language,
\* rule), and get_translation finds one row or none, returning None for none.
C10_OneTranslation ==
    /\ \A t1, t2 \in translations :
          (/\ t1.source_entity = t2.source_entity
           /\ t1.language = t2.language
           /\ t1.rule = t2.rule) => t1 = t2
    /\ \A e \in entities, l \in Languages, rule \in Rules :
          /\ get_translation(e.id, l, rule).result \in {"Translation", "None"}
          /\ get_translation(e.id, l, rule).result = "None"
                <=> get_translation_rows(e.id, l, rule) = {}

\* the rule discipline of the plural rules: every rule is in 0..5, and the
\* translations of an entity that is not pluralized have rule 5
RulesInOrder ==
    \A t \in translations :
        /\ t.rule \in 0..5
        /\ \A e \in entities :
              (e.id = t.source_entity /\ ~e.pluralized) => t.rule = 5

\* C12: update_wordcount does not count the plural strings: of the Translation
\* rows of a resource only those of the counted form, rule 5, add to its
\* wordcount, so a pluralized entity counts once per language and not once per
\* plural rule.
C12_PluralsNotCounted ==
    (/\ last.op = "update_wordcount"
     /\ RulesInOrder
     /\ \A t \in translations : t.language # NullLanguage) =>
        resources[last.resource].wordcount =
            SumWords({t \in TranslationsOf(last.resource) : t.rule = 5})

---------------------------------------------------------------------------
(* SpecDelete: resources with entities, translations and a template are     *)
(* saved and deleted, one by one and with their project.                    *)

NextDelete ==
    \/ \E p \in {"p1", "p2"} : p \notin projects /\ Project_save(p)
    \/ Resource_save("r1", "p1", "en")
    \/ \E p \in {"p1", "p2"} : Resource_save("r2", p, "en")
    \/ \E r \in Slugs : SourceEntity_save(0, r, <<"a">>, EmptyText, FALSE)
    \/ \E e \in entities, l \in Languages : Translation_save(0, e.id, l, 5, <<"a">>)
    \/ \E r \in Slugs : Template_save(r)
    \/ \E r \in Slugs : Resource_delete(r)
    \/ \E p \in {"p1", "p2"} : Project_delete(p)

SpecDelete == Init /\ [][NextDelete]_vars

\* C7: after a resource is deleted, by Resource.delete or with its project, no
\* SourceEntity, Translation or Template row of it remains: every SourceEntity
\* and every Template belongs to a resource that is there, every Translation to
\* a SourceEntity that is there.
C7_NoOrphans ==
    /\ \A e \in entities : resources[e.resource].pk
    /\ \A t \in translations : \E e \in entities : e.id = t.source_entity
    /\ \A r \in templates : resources[r].pk
    /\ last.op \in {"Resource.delete", "Project.delete"} =>
          \A r \in Slugs : ~resources[r].pk =>
              /\ CountEntities(r) = 0
              /\ TranslationsOf(r) = {}
              /\ r \notin templates

\* a project was deleted and took a resource with an entity, its translations
\* in two languages and its template, while another resource keeps its rows
C7_Witness ==
    /\ last.op = "Project.delete"
    /\ last.removed = <<1, 2, 1>>
    /\ entities # {}

StorageEvents == {"row_written", "row_deleted", "rows_deleted"}
InvalidationEvents ==
    {"invalidate_stats_cache",
     "invalidate_template_cache:project_resource_details",
     "invalidate_template_cache:resource_details"}

\* C8: the invalidation hook is called after the storage operation: every
\* write and every removal of a resource row is followed by an invalidation in
\* the same call, and no invalidation comes before the row is written or removed.
C8_InvalidateAfterStorage ==
    LET ev == last.events
    IN /\ \A i \in 1..Len(ev) : ev[i] \in StorageEvents =>
             \E j \in (i + 1)..Len(ev) : ev[j] \in InvalidationEvents
       /\ \A j \in 1..Len(ev) : ev[j] \in InvalidationEvents =>
             \E i \in 1..(j - 1) : ev[i] \in StorageEvents

---------------------------------------------------------------------------
(* SpecText: the translation of one entity takes every string of letters,   *)
(* blanks and tabs up to MaxLen characters, and its wordcount is read.      *)

TextChars == {"a", " ", "\t"}
TextStrings == UNION {[1..n -> TextChars] : n \in 0..MaxLen}

NextText ==
    \/ "p1" \notin projects /\ Project_save("p1")
    \/ ~resources["r1"].pk /\ Resource_save("r1", "p1", "en")
    \/ entities = {} /\ SourceEntity_save(0, "r1", <<"a">>, EmptyText, FALSE)
    \/ \E e \in entities, s \in TextStrings :
          translations = {} /\ Translation_save(0, e.id, "en", 5, s)
    \/ \E t \in translations, s \in TextStrings :
          Translation_save(t.id, t.source_entity, t.language, t.rule, s)
    \/ \E t \in translations : Translation_wordcount(t.id)

SpecText == Init /\ [][NextText]_vars

\* the number of maximal runs of non-whitespace characters of s: the places
\* where such a run starts
Runs(s) ==
    Cardinality({i \in 1..Len(s) :
        /\ s[i] \notin {" ", "\t"}
        /\ (i = 1 \/ s[i - 1] \in {" ", "\t"})})

\* C13: Translation.wordcount is the number of maximal runs of non-whitespace
\* characters of the string: several whitespace characters in a row separate
\* words as one does, whitespace at the ends adds no word, and a string of
\* whitespace only has wordcount 0.
C13_Wordcount ==
    last.op = "Translation.wordcount" =>
        /\ last.arg = {Runs(last.instance.string)}
        /\ (\A i \in 1..Len(last.instance.string) :
               last.instance.string[i] \in {" ", "\t"}) => last.arg = {0}

\* the wordcount of "a", blank, tab, "a" was read: two words
C13_Witness ==
    /\ last.op = "Translation.wordcount"
    /\ last.instance.string = <<"a", " ", "\t", "a">>
    /\ last.arg = {2}

====
